---------------------------- MODULE Spec2Model ----------------------------
(***************************************************************************)
(* Model of the notification sequencing core of onesignal-api-server:      *)
(* DeliveryService and FlightLiveActivityService (the per-id guard         *)
(* active_jobs and the background sequence coroutines), the notifier       *)
(* OneSignalMessageService as far as the sequences observe it, and the     *)
(* KVStore operations the flight sequence uses.                            *)
(*                                                                         *)
(* Scheduling model: one asyncio event loop.  A coroutine runs without     *)
(* interruption from one await that suspends to the next, so every action  *)
(* below is one such segment.  Time is discrete; Tick advances it to the   *)
(* next timer that is due and is disabled while a task is ready to run     *)
(* (the loop runs ready callbacks before it waits for timers).             *)
(***************************************************************************)
EXTENDS Integers, Sequences, FiniteSets, Bags, TLC

VARIABLES
  active_jobs,   \* [service -> dict id -> BOOLEAN], the two active_jobs dicts
  tasks,         \* bag of the background tasks created by asyncio.create_task
  last,          \* [service -> [id -> the task of that id that ended last]]
  kv,            \* the store's content: key -> JSON value or Absent
  backend,       \* "redis" (redis_client set) or "local" (local_storage)
  faults,        \* number of store operations that have hit a backend fault
  ack,           \* the response returned by the trigger call that was the last
                 \* step, NoAck when the last step was not a trigger
  redis,         \* the data of the remote server: key -> NoEntry or the JSON
                 \* text with the seconds left until it expires (0: never)
  local_storage, \* KVStore.local_storage: key -> NoEntry or the stored dict
  reachable,     \* whether the remote server answers
  out,           \* the result of the store or issuer call that was the last
                 \* step, NoOut when the last step was no such call
  expect,        \* history: what the store's contract says of each key
  issued,        \* history: what has happened to each OTP code of each phone
  window,        \* history: the rate window of each phone
  coupon_storage,\* CouponService.kv_store.local_storage: the dict of the
                 \* KVStore instance the coupon service constructs for itself
  granted        \* history: what has happened to each coupon code of each user

seqvars == <<active_jobs, tasks, last, kv, faults, ack>>

couponvars == <<coupon_storage, granted>>

storevars ==
  <<redis, local_storage, reachable, out, expect, issued, window,
    coupon_storage, granted>>

vars == <<active_jobs, tasks, last, kv, backend, faults, ack,
          redis, local_storage, reachable, out, expect, issued, window,
          coupon_storage, granted>>

--------------------------------------------------------------------------
(* Bounds of the model *)

\* request.notification_interval is unset (0) or 10*k seconds, k in 1..MaxInterval
\* (schemas.py: "default 60, demo mode: 10-20")
MaxInterval == 1

\* a notifier round trip takes 10*k seconds, k in 0..MaxRtt
MaxRtt == 1

\* at most MaxFaults store operations raise inside KVStore (redis backend only)
MaxFaults == 1

\* KVStore.set is called with ttl None (0) or 10*k seconds, k in 1..MaxTtl
MaxTtl == 2

\* KVStore.increment is not called on a counter it would take past MaxCount
MaxCount == 3

DeliveryIds == {"T1"}
FlightIds == {"A1"}
PairIds == {"A1", "A2"}
Gates == {"A12"}
Phones == {"+1555"}
OwnerPhones == {"+1555", "+1666"}
Codes == {"10000", "10001"}
Users == {"user123", "otherUser"}
CouponCodes == {"ABC123", "XYZ789"}

--------------------------------------------------------------------------
(* Program constants *)

\* interval = request.notification_interval if request.notification_interval else 60
DefaultInterval == 60

\* flight_service = FlightLiveActivityService(kv=kv_store, step_delay_seconds=10)
step_delay == 10

Services == {"delivery", "flight"}

IdsOf(svc) == IF svc = "delivery" THEN DeliveryIds ELSE FlightIds

Intervals == {10 * k : k \in 0..MaxInterval}

Rtts == {10 * k : k \in 0..MaxRtt}

\* Python's None as the result of KVStore.get
Absent == [none |-> TRUE]

NoTask == [outcome |-> "none"]

NoAck == [status |-> "none"]

--------------------------------------------------------------------------
(* The fixed step lists of the two sequences *)

\* the status argument of the three send_delivery_notification calls
DeliveryLabels == <<"Delivery Pickup", "In transit", "Delivered">>

\* (faulty variant: the last step sends "update" like the others)
AllUpdates == <<"update", "update", "update">>

\* the event argument of the three update_live_activity calls
FlightEvents == <<"update", "update", "end">>

StepsOf(svc) == IF svc = "delivery" THEN DeliveryLabels ELSE FlightEvents

--------------------------------------------------------------------------
(* The guard: the active_jobs dict of a service *)

\* (faulty variant: the duplicate check is missing)
never_active(jobs, id) == FALSE

\* (faulty variant: one flag for all ids)
any_active(jobs, id) == \E x \in DOMAIN jobs : jobs[x]

\* delivery: request.tracking_id in self.active_jobs and self.active_jobs[...]
\* flight:   self.active_jobs.get(aid)
is_active(jobs, id) == id \in DOMAIN jobs /\ jobs[id]

\* self.active_jobs[id] = v
mark(jobs, id, v) == [x \in (DOMAIN jobs) \cup {id} |-> IF x = id THEN v ELSE jobs[x]]

\* what a trigger finds in the dict: no entry, a True entry, or a False entry
\* (an entry is False only after a sequence has run its finally block)
guard_state(jobs, id) ==
  IF id \notin DOMAIN jobs THEN "absent"
  ELSE IF jobs[id] THEN "active" ELSE "released"

\* interval = request.notification_interval if request.notification_interval else 60
interval_of(ni) == IF ni # 0 THEN ni ELSE DefaultInterval

\* (faulty variant: the trigger awaits the coroutine instead of spawning it, so the
\* first notifier call is entered before the trigger returns)
awaited_task(svc, id, d) ==
  [svc |-> svc, id |-> id, pc |-> "call", step |-> 1, timer |-> 0, d |-> d,
   calls |-> <<[ev |-> "first", gap |-> 0]>>, returned |-> 0, slept |-> 0,
   err |-> FALSE, snaps |-> 0, kvok |-> TRUE]

\* asyncio.create_task(coro): a new task, not yet run; d is the delay between
\* steps, calls the log of the notifier calls it has entered, returned the
\* number of them that have returned, slept the time it
\* has been suspended in asyncio.sleep since its last notifier call (or since
\* it was created), err whether a notifier call has returned an error, snaps
\* the number of store writes it has made, kvok whether every store operation
\* of its sequence (register included) went through
create_task(svc, id, d) ==
  [svc |-> svc, id |-> id, pc |-> "pending", step |-> 0, timer |-> 0, d |-> d,
   calls |-> <<>>, returned |-> 0, slept |-> 0, err |-> FALSE, snaps |-> 0,
   kvok |-> TRUE]

TasksOf(svc, id) == {t \in BagToSet(tasks) : t.svc = svc /\ t.id = id}

\* number of tasks of (svc, id) that have not ended
Running(svc, id) ==
  LET S == TasksOf(svc, id)
      RECURSIVE Sum(_)
      Sum(X) == IF X = {} THEN 0
                ELSE LET x == CHOOSE y \in X : TRUE
                     IN CopiesIn(x, tasks) + Sum(X \ {x})
  IN Sum(S)

Replace(t, t2) == (tasks (-) SetToBag({t})) (+) SetToBag({t2})

--------------------------------------------------------------------------
(* The store as the flight service uses it: KVStore.set / KVStore.get *)

FlightKey(aid) == <<"live:flightUpdate", aid>>

Keys == {FlightKey(a) : a \in FlightIds}

\* a store operation can raise inside KVStore only with a redis client
CanFault(n) == backend = "redis" /\ n < MaxFaults

\* KVStore.set(key, value): the stores it can leave behind.  The value is
\* stored, or (redis) the call raises, the except branch returns False and
\* nothing is stored; the callers modelled here ignore the returned boolean
kv_set(store, key, value, n) ==
  {[store |-> [store EXCEPT ![key] = value], ok |-> TRUE]}
  \cup (IF CanFault(n) THEN {[store |-> store, ok |-> FALSE]} ELSE {})

\* KVStore.get(key): the stored value, or (redis) None from the except branch
kv_get(store, key, n) ==
  {[value |-> store[key], ok |-> TRUE]}
  \cup (IF CanFault(n) THEN {[value |-> Absent, ok |-> FALSE]} ELSE {})

Fault(ok) == IF ok THEN 0 ELSE 1

\* the dict {} of `self.kv.get(key) or {}`
EmptyRec == [status |-> "none", gate |-> "none", sstatus |-> "none",
             group |-> "none", updated_at |-> -1]

or_empty(v) == IF v = Absent THEN EmptyRec ELSE v

\* the record built by register(): status "active", state = {gate, boardingTime}
register(gate) ==
  [status |-> "active", gate |-> gate, sstatus |-> "none",
   group |-> "none", updated_at |-> 0]

\* (faulty variant: the step status is written to the record's top-level status)
update_top_status(rec, n) ==
  [rec EXCEPT !.status = IF n = 1 THEN "boarding" ELSE "finalCall",
              !.updated_at = n]

\* _kv_update_state(activity_id, status=..., group=...) applied to rec at step n:
\* writes state.status (and state.group when given), and updated_at
_kv_update_state(rec, n) ==
  [rec EXCEPT !.sstatus = IF n = 1 THEN "boarding" ELSE "finalCall",
              !.group = IF n = 2 THEN "2" ELSE @,
              !.updated_at = n]

\* (faulty variant: updated_at is not refreshed)
mark_ended_stale(rec, n) == [rec EXCEPT !.status = "ended"]

\* _kv_mark_ended(activity_id) applied to rec: writes the top-level status
_kv_mark_ended(rec, n) == [rec EXCEPT !.status = "ended", !.updated_at = n]

\* (faulty variant: the write of a step stores the state of the step to come)
write_ahead(rec, n) ==
  IF n < 2 THEN _kv_update_state(rec, n + 1) ELSE _kv_mark_ended(rec, n)

\* the store write of step n of the flight sequence
step_record(rec, n) ==
  IF n < 3 THEN _kv_update_state(rec, n) ELSE _kv_mark_ended(rec, n)

--------------------------------------------------------------------------
(* KVStore in full (storage/kv_store.py): both backends, TTLs and faults. *)
(* The values are the ones the callers store: ints and dicts.             *)

\* f"{self.otp_prefix}{phone_number}:{code}"
OtpKey(phone, code) == <<"otp:", phone, code>>

\* f"{self.rate_limit_prefix}{phone_number}"
RateKey(phone) == <<"rate:", phone>>

\* f"coupon:{coupon_code}"
CouponKey(code) == <<"coupon:", code>>

\* f"user_coupon:{user_id}"
UserCouponKey(user) == <<"user_coupon:", user>>

CouponKeys ==
  {CouponKey(c) : c \in CouponCodes} \cup {UserCouponKey(u) : u \in Users}

StoreKeys ==
  {OtpKey(p, c) : p \in Phones, c \in Codes} \cup {RateKey(p) : p \in Phones}
  \cup CouponKeys

\* the keys the store's operations are called with directly
KVKeys == {OtpKey(p, "10000") : p \in Phones} \cup {RateKey(p) : p \in Phones}

\* the values set is called with: a dict under an "otp:" key, the ints 0 and
\* 1 under a "rate:" key
SetValues(key) ==
  IF key[1] = "otp:" THEN {[used |-> FALSE]} ELSE {[int |-> 0], [int |-> 1]}

\* ttl: None (0 here: `if ttl:` treats None and 0 alike) or a number of seconds
Ttls == {10 * k : k \in 0..MaxTtl}

Amounts == {1, 2}

\* "*", f"{self.otp_prefix}*", f"{self.rate_limit_prefix}*"
Patterns == {<<"*">>, <<"otp:", "*">>, <<"rate:", "*">>}

\* no entry under a key: redis nil, key not in local_storage
NoEntry == [entry |-> FALSE]

NoOut == [op |-> "none"]

\* json.dumps(value): the JSON text of a value
json_dumps(value) == [json |-> value]

\* json.loads(text): the value of a JSON text
json_loads(text) == text.json

\* Python's truth value of None, of an int, of a dict with entries and of a
\* JSON text (a string that is never empty)
truthy(v) == v # Absent /\ v # [int |-> 0]

is_int(v) == "int" \in DOMAIN v

\* the store object with the server behind it, as the operations thread it
Store ==
  [redis |-> redis, local_storage |-> local_storage, reachable |-> reachable]

\* a command to the remote server raises: the server does not answer
down(st) == [st EXCEPT !.reachable = FALSE]

\* return <value> from the try body of an operation
returned(st, value) ==
  [st |-> st, ret |-> value, fault |-> FALSE, raised |-> FALSE]

\* except Exception as e: return <failure>
except_Exception(st, failure) ==
  [st |-> st, ret |-> failure, fault |-> TRUE, raised |-> FALSE]

\* redis_client.setex(key, ttl, json_value) if ttl else redis_client.set(key,
\* json_value): the entry the server holds afterwards
setex(json_value, ttl) ==
  [value |-> json_value, left |-> IF ttl # 0 THEN ttl ELSE 0]

\* KVStore.set(key, value, ttl): the outcomes.  redis: the write raises; or it
\* is served and the verification read is served; or the write is served and
\* the verification read raises.  local: the dict entry, whose ttl nothing reads
KVStore_set(st, key, value, ttl) ==
  LET json_value == json_dumps(value)
  IN IF backend = "redis"
     THEN LET stored ==
                [st EXCEPT !.redis[key] = setex(json_value, ttl)]
          IN {except_Exception(down(st), FALSE)}
             \cup (IF st.reachable
                   THEN {returned(stored, TRUE),
                         except_Exception(down(stored), FALSE)}
                   ELSE {})
     ELSE {returned([st EXCEPT !.local_storage[key] =
                       [value |-> json_value, ttl |-> ttl, timestamp |-> "None"]],
                    TRUE)}

\* the json_value read by KVStore.get
stored_json(st, key) ==
  IF backend = "redis"
  THEN IF st.redis[key] = NoEntry THEN Absent ELSE st.redis[key].value
  ELSE IF st.local_storage[key] = NoEntry THEN Absent
       ELSE st.local_storage[key].value

\* if json_value: return json.loads(json_value) / return None
loaded(json_value) ==
  IF truthy(json_value) THEN json_loads(json_value) ELSE Absent

\* KVStore.get(key)
KVStore_get(st, key) ==
  IF backend = "redis"
  THEN {except_Exception(down(st), Absent)}
       \cup (IF st.reachable THEN {returned(st, loaded(stored_json(st, key)))}
             ELSE {})
  ELSE {returned(st, loaded(stored_json(st, key)))}

\* (faulty variant: the entry is reported as deleted but kept)
keep_entry(entries, key) == entries

\* del self.local_storage[key] / redis DEL
remove_entry(entries, key) == [entries EXCEPT ![key] = NoEntry]

\* KVStore.delete(key)
KVStore_delete(st, key) ==
  IF backend = "redis"
  THEN {except_Exception(down(st), FALSE)}
       \cup (IF st.reachable
             THEN {returned([st EXCEPT !.redis = remove_entry(@, key)],
                            st.redis[key] # NoEntry)}
             ELSE {})
  ELSE IF st.local_storage[key] # NoEntry
       THEN {returned([st EXCEPT !.local_storage = remove_entry(@, key)], TRUE)}
       ELSE {returned(st, FALSE)}

\* KVStore.exists(key)
KVStore_exists(st, key) ==
  IF backend = "redis"
  THEN {except_Exception(down(st), FALSE)}
       \cup (IF st.reachable THEN {returned(st, st.redis[key] # NoEntry)}
             ELSE {})
  ELSE {returned(st, st.local_storage[key] # NoEntry)}

\* (faulty variant: the prior value is lost)
lost_update(current, amount) == amount

\* new_value = current + amount (local); INCRBY (redis)
new_value(current, amount) == current + amount

\* KVStore.increment(key, amount).  redis: INCRBY creates the key without
\* expiry, keeps the expiry of an existing key and refuses a text that is no
\* integer (ResponseError, caught).  local: self.get(key) or 0, then
\* self.set(key, new_value) with no ttl; a dict + int is a TypeError, caught
KVStore_increment(st, key, amount) ==
  IF backend = "redis"
  THEN {except_Exception(down(st), 0)}
       \cup (IF ~st.reachable THEN {}
             ELSE IF st.redis[key] = NoEntry
             THEN {returned([st EXCEPT !.redis[key] =
                               [value |-> json_dumps([int |-> new_value(0, amount)]),
                                left |-> 0]],
                            new_value(0, amount))}
             ELSE IF is_int(json_loads(st.redis[key].value))
             THEN LET n == new_value(json_loads(st.redis[key].value).int, amount)
                  IN {returned([st EXCEPT !.redis[key].value =
                                  json_dumps([int |-> n])], n)}
             ELSE {except_Exception(st, 0)})
  ELSE LET got == (CHOOSE g \in KVStore_get(st, key) : TRUE).ret
           current == IF truthy(got) THEN got ELSE [int |-> 0]
       IN IF is_int(current)
          THEN LET n == new_value(current.int, amount)
                   w == CHOOSE x \in KVStore_set(st, key, [int |-> n], 0) : TRUE
               IN {returned(w.st, n)}
          ELSE {except_Exception(st, 0)}

\* (faulty variant: every key is listed)
match_all(key, pattern) == TRUE

\* fnmatch.fnmatch(k, pattern) and the glob of redis KEYS, for the patterns
\* "*" and "<prefix>*"
fnmatch(key, pattern) ==
  IF pattern = <<"*">> THEN TRUE ELSE key[1] = pattern[1]

\* KVStore.get_keys(pattern); the list is modelled as the set of its members
KVStore_get_keys(st, pattern) ==
  IF backend = "redis"
  THEN {except_Exception(down(st), {})}
       \cup (IF st.reachable
             THEN {returned(st, {k \in StoreKeys :
                                   st.redis[k] # NoEntry /\ fnmatch(k, pattern)})}
             ELSE {})
  ELSE {returned(st, {k \in StoreKeys :
                        st.local_storage[k] # NoEntry /\ fnmatch(k, pattern)})}

\* the value the backend in use holds under a key, Absent when it holds none
Held(key) == loaded(stored_json(Store, key))

\* what the contract of the store says of a key: never written, live (with
\* the value, the ttl it was written with, the seconds left of it, the sum of
\* the increments since it was written, and whether increments alone made
\* it), expired, deleted, or unknown (a write of it hit a fault, or it was
\* incremented after it had expired)
Never ==
  [status |-> "never", value |-> Absent, ttl |-> 0, left |-> 0, incs |-> 0,
   fresh |-> FALSE]

Gone(status) == [Never EXCEPT !.status = status]

Written(value, ttl) ==
  [status |-> "live", value |-> value, ttl |-> ttl, left |-> ttl, incs |-> 0,
   fresh |-> FALSE]

Incremented(e, amount) ==
  IF e.status \in {"never", "deleted"}
  THEN [status |-> "live", value |-> [int |-> amount], ttl |-> 0, left |-> 0,
        incs |-> amount, fresh |-> TRUE]
  ELSE IF e.status = "live" /\ is_int(e.value)
  THEN [e EXCEPT !.value = [int |-> e.value.int + amount], !.incs = @ + amount]
  ELSE Gone("unknown")

--------------------------------------------------------------------------
(* OTPService (services/otp_service.py) *)

\* self.kv.set(key, otp_data, ttl=300)  # 5 minutes
otp_ttl == 300

\* self.kv.set(key, otp_data, ttl=60)  # Keep for 1 minute after use
used_ttl == 60

\* self.kv.set(rate_key, 1, ttl=3600)
rate_ttl == 3600

\* if attempts >= 3: raise Exception("Too many OTP requests. ...")
rate_cap == 3

\* otp_data = {"phone_number", "code", "created_at", "used": False}
\* (created_at is written and never read: left out)
otp_data(phone, code) == [phone_number |-> phone, code |-> code, used |-> FALSE]

\* attempts = self.kv.get(rate_key) or 0
attempts_of(got) == IF truthy(got) THEN got.int ELSE 0

\* (faulty variant: the limit is reported as any other result)
return_message(message) == [raised |-> FALSE, message |-> message]

\* raise Exception(message)
raise_Exception(message) == [raised |-> TRUE, message |-> message]

\* what has happened to a code of a phone: whether generate_otp has returned
\* it, whether verify_otp has accepted it, and the seconds left until the
\* expires_at of its latest issue (0: none left)
Unissued == [issued |-> FALSE, won |-> FALSE, left |-> 0]

\* the rate window of a phone as the contract counts it: none yet, open (with
\* the number of codes returned in it and the seconds left of the hour that
\* began with the first of them) or closed.  It is followed while the calls
\* of generate_otp for the phone are served: clean turns FALSE, for good,
\* with the first of them that hits a backend fault
NoWindow == [status |-> "none", count |-> 0, left |-> 0, clean |-> TRUE]

Unclean == [status |-> "none", count |-> 0, left |-> 0, clean |-> FALSE]

\* the window after a generate_otp that returned a code
Counted(w, fault) ==
  IF fault \/ ~w.clean THEN Unclean
  ELSE IF w.status = "open"
  THEN [w EXCEPT !.count = IF @ > rate_cap THEN @ ELSE @ + 1]
  ELSE [status |-> "open", count |-> 1, left |-> rate_ttl, clean |-> TRUE]

\* the codes of a phone after generate_otp has returned one of them, w being
\* the window of the phone after the call: the time left to a code is
\* followed, like the window, while the calls are served
Issued(codes, code, w) ==
  IF w.clean
  THEN [codes EXCEPT ![code].issued = TRUE, ![code].left = otp_ttl]
  ELSE [c \in DOMAIN codes |->
          [codes[c] EXCEPT !.issued = @ \/ c = code, !.left = 0]]

--------------------------------------------------------------------------
(* CouponService (services/coupon_service.py) *)

\* self.expiry_minutes = 5
expiry_minutes == 5

\* ttl=self.expiry_minutes * 60  # Convert to seconds
coupon_ttl == expiry_minutes * 60

\* random.choices(string.ascii_uppercase + string.digits, k=6): the codes a
\* call can return
_generate_unique_code == CouponCodes

\* value={"user_id", "expires_at", "used": False}; expires_at = utcnow() +
\* timedelta(minutes=5) is held as the seconds from now until it, 0 once
\* utcnow() > expires_at
coupon_data(user) ==
  [user_id |-> user, expires_at |-> expiry_minutes * 60, used |-> FALSE]

\* value={"coupon_code", "expires_at"} (this expires_at is never read: left
\* out)
user_coupon_data(code) == [coupon_code |-> code]

\* what has happened to a coupon code issued to a user: the seconds left
\* until its expires_at (0: never issued, or over) and whether
\* validate_coupon has accepted it.  The coupons are followed while the calls
\* of generate_coupon are served: clean turns FALSE, for good, with the
\* first of them that hits a backend fault
Ungranted == [left |-> 0, won |-> FALSE, clean |-> TRUE]

Unfollowed == [left |-> 0, won |-> FALSE, clean |-> FALSE]

\* the coupons after generate_coupon has returned code to user
Granted(g, code, user, fault) ==
  IF fault \/ ~g[code][user].clean
  THEN [c \in DOMAIN g |-> [u \in DOMAIN g[c] |-> Unfollowed]]
  ELSE [g EXCEPT ![code][user] =
          [left |-> coupon_ttl, won |-> FALSE, clean |-> TRUE]]

--------------------------------------------------------------------------
(* Initial state: both services and the store freshly constructed *)

\* no sequence has been triggered
Idle ==
  /\ active_jobs = [s \in Services |-> <<>>]
  /\ tasks = EmptyBag
  /\ last = [s \in Services |-> [i \in IdsOf(s) |-> NoTask]]
  /\ kv = [k \in Keys |-> Absent]
  /\ faults = 0
  /\ ack = NoAck

\* nothing is stored and nothing has been called
Empty ==
  /\ redis = [k \in StoreKeys |-> NoEntry]
  /\ local_storage = [k \in StoreKeys |-> NoEntry]
  /\ out = NoOut
  /\ expect = [k \in StoreKeys |-> Never]
  /\ issued = [p \in Phones |-> [c \in Codes |-> Unissued]]
  /\ window = [p \in Phones |-> NoWindow]
  /\ coupon_storage = [k \in StoreKeys |-> NoEntry]
  /\ granted = [c \in CouponCodes |-> [u \in Users |-> Ungranted]]

\* the sequencer's view: the faults of the store are counted by `faults`
Init ==
  /\ Idle
  /\ backend \in {"redis", "local"}
  /\ reachable = (backend = "redis")
  /\ Empty

\* KVStore.__init__: without credentials, or when redis.from_url raises,
\* redis_client stays None (local); else redis_client is the client, whether
\* its ping() was answered or raised (the except branch only prints)
KVInit ==
  /\ Idle
  /\ backend \in {"redis", "local"}
  /\ reachable \in (IF backend = "redis" THEN BOOLEAN ELSE {FALSE})
  /\ Empty

--------------------------------------------------------------------------
(* Triggers *)

\* the "message" of a trigger's response dict: f"Already tracking {id}" and
\* f"Started tracking {id}" (delivery), f"Sequence already running for {aid}"
\* (flight); the flight response {"status": "started", ...} has none
message_of(svc, id, status) ==
  IF svc = "delivery"
  THEN IF status = "error" THEN <<"Already tracking", id>>
       ELSE <<"Started tracking", id>>
  ELSE IF status = "error" THEN <<"Sequence already running for", id>>
       ELSE <<>>

\* the response of a trigger, with how it reaches the caller (via: a returned
\* dict, which the router returns as it is) and what the trigger found when it
\* was called: the guard entry of the id and whether a task of the id had not
\* ended
response(svc, id, status) ==
  [svc |-> svc, id |-> id, status |-> status,
   message |-> message_of(svc, id, status), via |-> "return",
   found |-> guard_state(active_jobs[svc], id), running |-> Running(svc, id) > 0]

\* (faulty variant: the refusal is raised as an exception)
raise_refusal(svc, id) ==
  /\ ack' = [response(svc, id, "error") EXCEPT !.via = "raise"]
  /\ UNCHANGED <<active_jobs, tasks, last, kv, backend, faults>>

\* (faulty variant: the flight trigger persists the baseline before it looks
\* at the guard, so a refused trigger resets the record of the running sequence)
register_then_refuse(svc, id) ==
  /\ ack' = response(svc, id, "error")
  /\ kv' = IF svc = "flight"
           THEN [kv EXCEPT ![FlightKey(id)] = register(CHOOSE g \in Gates : TRUE)]
           ELSE kv
  /\ UNCHANGED <<active_jobs, tasks, last, backend, faults>>

\* return {"status": "error", "message": ...}
Refuse(svc, id) ==
  /\ ack' = response(svc, id, "error")
  /\ UNCHANGED <<active_jobs, tasks, last, kv, backend, faults>>

Accept(svc, id, d, status, kvok) ==
  /\ active_jobs' = [active_jobs EXCEPT ![svc] = mark(@, id, TRUE)]
  /\ tasks' = tasks (+) SetToBag({[create_task(svc, id, d) EXCEPT !.kvok = kvok]})
  /\ last' = [last EXCEPT ![svc][id] = NoTask]
  /\ ack' = response(svc, id, status)
  /\ UNCHANGED backend

\* DeliveryService.schedule_delivery_sequence(request)
schedule_delivery_sequence(id, ni) ==
  IF is_active(active_jobs["delivery"], id)
  THEN Refuse("delivery", id)
  ELSE /\ Accept("delivery", id, interval_of(ni), "success", TRUE)
       /\ UNCHANGED <<kv, faults>>

\* FlightLiveActivityService.schedule_emoji_sequence(payload)
schedule_emoji_sequence(id, gate) ==
  IF is_active(active_jobs["flight"], id)
  THEN Refuse("flight", id)
  ELSE \E w \in kv_set(kv, FlightKey(id), register(gate), faults) :
         /\ kv' = w.store
         /\ faults' = faults + Fault(w.ok)
         /\ Accept("flight", id, step_delay, "started", w.ok)

--------------------------------------------------------------------------
(* The background sequences *)

\* (faulty variant: the flag is reset at the end of the try body, not in finally)
reset_in_try(outcome) == outcome # "completed"

\* the value the finally block leaves in active_jobs[id]
finally_value(outcome) == FALSE

\* the task ends: except/finally of the sequence coroutine
\* (t is the task as it is in the bag, t1 the same task after its last segment)
End(t, t1, outcome) ==
  /\ active_jobs' = [active_jobs EXCEPT ![t.svc] = mark(@, t.id, finally_value(outcome))]
  /\ tasks' = tasks (-) SetToBag({t})
  /\ last' = [last EXCEPT ![t.svc][t.id] =
                [outcome |-> outcome, calls |-> t1.calls,
                 returned |-> t1.returned, err |-> t1.err,
                 snaps |-> t1.snaps, d |-> t1.d, kvok |-> t1.kvok]]
  /\ ack' = NoAck
  /\ UNCHANGED backend

\* the task enters a notifier call: the HTTP request of step t.step + 1 is sent
begin_call(t, rtt) ==
  [t EXCEPT !.pc = "call", !.step = @ + 1, !.timer = rtt,
            !.slept = 0,
            !.calls = Append(@, [ev |-> StepsOf(t.svc)[t.step + 1], gap |-> t.slept])]

\* (faulty variant: the sleep between two steps is skipped)
no_sleep(t) == [t EXCEPT !.pc = "sleep", !.timer = 0]

\* await asyncio.sleep(d)
begin_sleep(t) == [t EXCEPT !.pc = "sleep", !.timer = t.d]

\* first run of the coroutine.  delivery: the first notifier call is entered at
\* once; flight: the first step delay
Start(t) ==
  /\ t.pc = "pending"
  /\ IF t.svc = "delivery"
     THEN \E rtt \in Rtts : tasks' = Replace(t, begin_call(t, rtt))
     ELSE tasks' = Replace(t, begin_sleep(t))
  /\ ack' = NoAck
  /\ UNCHANGED <<active_jobs, last, kv, backend, faults>>

\* the sleep is over: the next notifier call is entered
Wake(t) ==
  /\ t.pc = "sleep" /\ t.timer = 0
  /\ \E rtt \in Rtts : tasks' = Replace(t, begin_call(t, rtt))
  /\ ack' = NoAck
  /\ UNCHANGED <<active_jobs, last, kv, backend, faults>>

\* an exception is raised in the try body of the delivery sequence: it escapes
\* send_delivery_notification before that function's own try block (raise
\* ValueError, or an I/O error of its prints) and is caught by the sequence's
\* except Exception; no request has been sent for the step
Raise(t) ==
  /\ t.svc = "delivery"
  /\ t.pc = "pending" \/ (t.pc = "sleep" /\ t.timer = 0)
  /\ End(t, t, "failed")
  /\ UNCHANGED <<kv, faults>>

\* what a notifier call can return to the sequence: the provider's response
\* ("ok": response.json(), whatever the HTTP status) or the error dict built
\* by the notifier's own except Exception ("error")
send_delivery_notification == {"ok", "error"}

update_live_activity == {"ok", "error"}

\* the notifier call returns; the sequence does not look at the returned value
Return(t, res) ==
  /\ t.pc = "call" /\ t.timer = 0
  /\ res \in (IF t.svc = "delivery" THEN send_delivery_notification
              ELSE update_live_activity)
  /\ LET t1 == [t EXCEPT !.err = @ \/ (res = "error"), !.returned = @ + 1]
         key == FlightKey(t.id)
     IN IF t.svc = "delivery"
        THEN /\ UNCHANGED <<kv, faults>>
             /\ IF t.step < 3
                THEN /\ tasks' = Replace(t, begin_sleep(t1))
                     /\ ack' = NoAck
                     /\ UNCHANGED <<active_jobs, last, backend>>
                ELSE End(t, t1, "completed")
        ELSE \E r \in kv_get(kv, key, faults) :
             \E w \in kv_set(kv, key, step_record(or_empty(r.value), t.step),
                             faults + Fault(r.ok)) :
               /\ kv' = w.store
               /\ faults' = faults + Fault(r.ok) + Fault(w.ok)
               /\ LET t2 == [t1 EXCEPT !.snaps = @ + 1,
                                       !.kvok = @ /\ r.ok /\ w.ok]
                  IN IF t.step < 3
                     THEN /\ tasks' = Replace(t, begin_sleep(t2))
                          /\ ack' = NoAck
                          /\ UNCHANGED <<active_jobs, last, backend>>
                     ELSE End(t, t2, "completed")

\* the task is cancelled by the event loop while suspended at an await inside
\* the try block (the services themselves never cancel a task):
\* CancelledError is no Exception, so only the finally block runs
Cancel(t) ==
  /\ t.pc \in {"call", "sleep"}
  /\ End(t, t, "cancelled")
  /\ UNCHANGED <<kv, faults>>

\* time passes up to the next due timer; nothing is ready to run
Tick ==
  /\ tasks # EmptyBag
  /\ \A t \in BagToSet(tasks) : t.pc # "pending" /\ t.timer > 0
  /\ LET S == BagToSet(tasks)
         delta == CHOOSE n \in {t.timer : t \in S} : \A t \in S : n <= t.timer
         adv(t) == [t EXCEPT !.timer = @ - delta,
                             !.slept = IF t.pc = "sleep" THEN @ + delta ELSE @]
     IN tasks' = BagOfAll(adv, tasks)
  /\ ack' = NoAck
  /\ UNCHANGED <<active_jobs, last, kv, backend, faults>>

\* one segment of DeliveryService._send_delivery_sequence run by task t
_send_delivery_sequence(t) ==
  /\ t.svc = "delivery"
  /\ \/ Start(t)
     \/ Wake(t)
     \/ Raise(t)
     \/ \E res \in {"ok", "error"} : Return(t, res)

\* one segment of FlightLiveActivityService._run_emoji_sequence run by task t
_run_emoji_sequence(t) ==
  /\ t.svc = "flight"
  /\ \/ Start(t)
     \/ Wake(t)
     \/ \E res \in {"ok", "error"} : Return(t, res)

Next ==
  \/ /\ \E id \in DeliveryIds, ni \in Intervals : schedule_delivery_sequence(id, ni)
     /\ UNCHANGED storevars
  \/ /\ \E id \in FlightIds, g \in Gates : schedule_emoji_sequence(id, g)
     /\ UNCHANGED storevars
  \/ /\ \E t \in BagToSet(tasks) : _send_delivery_sequence(t)
     /\ UNCHANGED storevars
  \/ /\ \E t \in BagToSet(tasks) : _run_emoji_sequence(t)
     /\ UNCHANGED storevars
  \/ /\ \E t \in BagToSet(tasks) : Cancel(t)
     /\ UNCHANGED storevars
  \/ /\ Tick
     /\ UNCHANGED storevars

Spec == Init /\ [][Next]_vars

\* the flight service with two activity ids (live activities of two flights)
PairInit ==
  /\ active_jobs = [s \in Services |-> <<>>]
  /\ tasks = EmptyBag
  /\ last = [s \in Services |->
               [i \in (IF s = "flight" THEN PairIds ELSE IdsOf(s)) |-> NoTask]]
  /\ kv = [k \in {FlightKey(a) : a \in PairIds} |-> Absent]
  /\ faults = 0
  /\ ack = NoAck
  /\ backend \in {"redis", "local"}
  /\ reachable = (backend = "redis")
  /\ Empty

PairNext ==
  \/ /\ \E id \in PairIds, g \in Gates : schedule_emoji_sequence(id, g)
     /\ UNCHANGED storevars
  \/ /\ \E t \in BagToSet(tasks) : _run_emoji_sequence(t)
     /\ UNCHANGED storevars
  \/ /\ \E t \in BagToSet(tasks) : Cancel(t)
     /\ UNCHANGED storevars
  \/ /\ Tick
     /\ UNCHANGED storevars

PairSpec == PairInit /\ [][PairNext]_vars

\* the scheduling the event loop guarantees: a task that is ready to run is
\* run (per id), and time does not stop
FairSpec ==
  /\ Spec
  /\ \A s \in Services : \A i \in IdsOf(s) :
       WF_vars(/\ \E t \in TasksOf(s, i) :
                    Start(t) \/ Wake(t) \/ \E res \in {"ok", "error"} : Return(t, res)
               /\ UNCHANGED storevars)
  /\ SF_vars(Tick /\ UNCHANGED storevars)

--------------------------------------------------------------------------
(* The store and the OTP service as their callers drive them.  Every call  *)
(* is synchronous (no await inside), so each is one step of the event loop *)

\* the state the call leaves behind
Commit(st) ==
  /\ redis' = st.redis
  /\ local_storage' = st.local_storage
  /\ reachable' = st.reachable

\* the result of a store call on a key, with what the contract said of the
\* key when the call was made
result(op, key, o) ==
  [op |-> op, key |-> key, ret |-> o.ret, fault |-> o.fault,
   raised |-> o.raised, before |-> expect[key],
   had |-> stored_json(Store, key) # Absent]

\* kv_store.set(key, value, ttl)
call_set(key, value, ttl) ==
  \E o \in KVStore_set(Store, key, value, ttl) :
    /\ Commit(o.st)
    /\ out' = result("set", key, o) @@ [value |-> value, ttl |-> ttl]
    /\ expect' = [expect EXCEPT ![key] =
                    IF o.fault THEN Gone("unknown") ELSE Written(value, ttl)]
    /\ UNCHANGED <<seqvars, backend, issued, window, couponvars>>

\* kv_store.get(key)
call_get(key) ==
  \E o \in KVStore_get(Store, key) :
    /\ Commit(o.st)
    /\ out' = result("get", key, o)
    /\ UNCHANGED <<seqvars, backend, expect, issued, window, couponvars>>

\* kv_store.delete(key)
call_delete(key) ==
  \E o \in KVStore_delete(Store, key) :
    /\ Commit(o.st)
    /\ out' = result("delete", key, o)
    /\ expect' = [expect EXCEPT ![key] =
                    IF o.fault THEN @
                    ELSE IF o.ret THEN Gone("deleted")
                    ELSE IF @.status = "unknown" THEN Never
                    ELSE @]
    /\ UNCHANGED <<seqvars, backend, issued, window, couponvars>>

\* kv_store.exists(key)
call_exists(key) ==
  \E o \in KVStore_exists(Store, key) :
    /\ Commit(o.st)
    /\ out' = result("exists", key, o)
    /\ UNCHANGED <<seqvars, backend, expect, issued, window, couponvars>>

\* kv_store.increment(key, amount), called while the counter stays within
\* MaxCount
call_increment(key, amount) ==
  /\ is_int(Held(key)) => Held(key).int + amount <= MaxCount
  /\ \E o \in KVStore_increment(Store, key, amount) :
       /\ Commit(o.st)
       /\ out' = result("increment", key, o) @@ [amount |-> amount]
       /\ expect' = [expect EXCEPT ![key] =
                       IF o.fault THEN @ ELSE Incremented(@, amount)]
       /\ UNCHANGED <<seqvars, backend, issued, window, couponvars>>

\* kv_store.get_keys(pattern)
call_get_keys(pattern) ==
  \E o \in KVStore_get_keys(Store, pattern) :
    /\ Commit(o.st)
    /\ out' = [op |-> "get_keys", key |-> pattern, ret |-> o.ret,
               fault |-> o.fault, raised |-> o.raised]
    /\ UNCHANGED <<seqvars, backend, expect, issued, window, couponvars>>

\* the outcome of an operation that was served, the store it leaves behind
served(outcomes, st) ==
  IF \E o \in outcomes : ~o.fault
  THEN (CHOOSE o \in outcomes : ~o.fault).st ELSE st

\* (faulty variant: the request is counted before the limit is tested)
count_then_raise(st, phone) ==
  served(KVStore_increment(st, RateKey(phone), 1), st)

\* raise Exception("Too many OTP requests. ..."): the call ends at line 38,
\* before any set or increment; the store is as the get of line 35 left it
raise_at_limit(st, phone) == st

\* OTPService.generate_otp(phone_number); random.randint draws the code
generate_otp(phone) ==
  /\ \E g \in KVStore_get(Store, RateKey(phone)) :
       LET attempts == attempts_of(g.ret)
       IN IF attempts >= rate_cap
          THEN /\ Commit(raise_at_limit(g.st, phone))
               /\ out' = [op |-> "generate_otp", phone |-> phone, code |-> "none",
                          fault |-> g.fault, before |-> window[phone]]
                         @@ raise_Exception("Too many OTP requests. Please try again later.")
               /\ UNCHANGED <<issued, window>>
          ELSE \E code \in Codes :
               \E w \in KVStore_set(g.st, OtpKey(phone, code),
                                    otp_data(phone, code), otp_ttl) :
               \E i \in KVStore_increment(w.st, RateKey(phone), 1) :
               \E r \in (IF attempts = 0
                         THEN KVStore_set(i.st, RateKey(phone), [int |-> 1], rate_ttl)
                         ELSE {returned(i.st, TRUE)}) :
                 LET fault == g.fault \/ w.fault \/ i.fault \/ r.fault
                 IN /\ Commit(r.st)
                    /\ out' = [op |-> "generate_otp", phone |-> phone,
                               code |-> code, raised |-> FALSE, message |-> "none",
                               fault |-> fault, before |-> window[phone]]
                    /\ issued' = [issued EXCEPT ![phone] =
                                    Issued(@, code, Counted(window[phone], fault))]
                    /\ window' = [window EXCEPT ![phone] = Counted(@, fault)]
  /\ UNCHANGED <<seqvars, backend, expect, couponvars>>

\* (faulty variant: a code found used is removed by the failed attempt)
burn_on_failure(st, key) ==
  served(KVStore_delete(st, key), st)

\* return False, "Code already used" (line 92): the call ends before the set
\* of line 96; the store is as the get of line 86 left it
already_used(st, key) == st

\* otp_data["used"] = True
mark_used(otp) == [otp EXCEPT !.used = TRUE]

\* OTPService.verify_otp(phone_number, code) -> (is_valid, message)
verify_otp(phone, code) ==
  /\ \E g \in KVStore_get(Store, OtpKey(phone, code)) :
       LET reply(st, valid, message, fault) ==
             /\ Commit(st)
             /\ out' = [op |-> "verify_otp", phone |-> phone, code |-> code,
                        valid |-> valid, message |-> message, fault |-> fault,
                        raised |-> FALSE, before |-> issued[phone][code],
                        clean |-> window[phone].clean]
       IN IF ~truthy(g.ret)
          THEN /\ reply(g.st, FALSE, "Invalid code or expired", g.fault)
               /\ UNCHANGED issued
          ELSE IF g.ret.used
          THEN /\ reply(already_used(g.st, OtpKey(phone, code)), FALSE,
                        "Code already used", g.fault)
               /\ UNCHANGED issued
          ELSE \E w \in KVStore_set(g.st, OtpKey(phone, code),
                                    mark_used(g.ret), used_ttl) :
                 /\ reply(w.st, TRUE, "Code verified successfully", w.fault)
                 /\ issued' = [issued EXCEPT ![phone][code].won = TRUE]
  /\ UNCHANGED <<seqvars, backend, expect, window, couponvars>>

\* the store object of the coupon service: its own dict, the same server
CouponStore ==
  [redis |-> redis, local_storage |-> coupon_storage, reachable |-> reachable]

\* the state a call of the coupon service leaves behind
CommitCoupon(st) ==
  /\ redis' = st.redis
  /\ coupon_storage' = st.local_storage
  /\ reachable' = st.reachable

\* CouponService.generate_coupon(user_id)
generate_coupon(user) ==
  /\ \E code \in _generate_unique_code :
     \E a \in KVStore_set(CouponStore, CouponKey(code), coupon_data(user),
                          coupon_ttl) :
     \E b \in KVStore_set(a.st, UserCouponKey(user), user_coupon_data(code),
                          coupon_ttl) :
       /\ CommitCoupon(b.st)
       /\ out' = [op |-> "generate_coupon", user |-> user, code |-> code,
                  raised |-> FALSE, fault |-> a.fault \/ b.fault,
                  before |-> granted[code],
                  had |-> loaded(stored_json(CouponStore, CouponKey(code)))]
       /\ granted' = Granted(granted, code, user, a.fault \/ b.fault)
  /\ UNCHANGED <<seqvars, backend, local_storage, expect, issued, window>>

\* (faulty variant: check 3, the owner of the coupon, is missing)
valid_for_anyone(coupon, user) ==
  /\ truthy(coupon)
  /\ ~coupon.used
  /\ coupon.expires_at # 0

\* the checks 2 to 5 of validate_coupon on the value get has returned
is_valid(coupon, user) ==
  /\ truthy(coupon)
  /\ coupon.user_id = user
  /\ ~coupon.used
  /\ coupon.expires_at # 0

\* CouponService.validate_coupon(coupon_code, user_id) -> bool; step 6, "Mark
\* as used", is commented out in the source
validate_coupon(code, user) ==
  /\ \E g \in KVStore_get(CouponStore, CouponKey(code)) :
       /\ CommitCoupon(g.st)
       /\ out' = [op |-> "validate_coupon", code |-> code, user |-> user,
                  valid |-> is_valid(g.ret, user), raised |-> FALSE,
                  fault |-> g.fault, before |-> granted[code]]
       /\ granted' = IF is_valid(g.ret, user) /\ granted[code][user].clean
                     THEN [granted EXCEPT ![code][user].won = TRUE]
                     ELSE granted
  /\ UNCHANGED <<seqvars, backend, local_storage, expect, issued, window>>

\* a stored value delta seconds later: utcnow() has come closer to, or has
\* passed, the expires_at it holds
passed(value, delta) ==
  IF "expires_at" \in DOMAIN value
  THEN [value EXCEPT !.expires_at = IF @ <= delta THEN 0 ELSE @ - delta]
  ELSE value

\* an entry of a backend delta seconds later, as far as the clock is in its
\* value
elapse(entry, delta) ==
  IF entry = NoEntry THEN entry
  ELSE [entry EXCEPT !.value = json_dumps(passed(json_loads(@), delta))]

\* an entry of the server, delta seconds later: redis removes it when its
\* time is up
aged(entry, delta) ==
  IF entry = NoEntry \/ entry.left = 0 THEN entry
  ELSE IF entry.left <= delta THEN NoEntry
  ELSE [entry EXCEPT !.left = @ - delta]

\* the same for what the contract says of a key
aged_expect(e, delta) ==
  IF e.status # "live" \/ e.left = 0 THEN e
  ELSE IF e.left <= delta THEN Gone("expired")
  ELSE [e EXCEPT !.left = @ - delta]

\* the same for the seconds left of an issued code or coupon
aged_left(r, delta) ==
  [r EXCEPT !.left = IF @ <= delta THEN 0 ELSE @ - delta]

\* the same for a rate window: it closes, and its count restarts
aged_window(w, delta) ==
  IF w.status # "open" THEN w
  ELSE IF w.left <= delta
  THEN [status |-> "closed", count |-> 0, left |-> 0, clean |-> w.clean]
  ELSE [w EXCEPT !.left = @ - delta]

\* the deadline held in the value of an entry
deadline(entry) ==
  IF entry # NoEntry /\ "expires_at" \in DOMAIN json_loads(entry.value)
  THEN json_loads(entry.value).expires_at ELSE 0

\* the times in which a ttl, an expires_at or a rate window runs out
Due ==
  {redis[k].left : k \in {x \in DOMAIN redis : redis[x] # NoEntry}}
  \cup {expect[k].left : k \in DOMAIN expect}
  \cup {issued[p][c].left : p \in DOMAIN issued, c \in Codes}
  \cup {window[p].left : p \in DOMAIN window}
  \cup {granted[c][u].left : c \in CouponCodes, u \in Users}
  \cup {deadline(redis[k]) : k \in DOMAIN redis}
  \cup {deadline(coupon_storage[k]) : k \in DOMAIN coupon_storage}

\* time passes until the next of these instants is just over; the
\* local_storage dicts have no clock ('timestamp': None) and nothing removes
\* their entries
StoreTick ==
  /\ \E n \in Due : n > 0
  /\ LET delta == CHOOSE n \in Due : n > 0 /\ \A m \in Due : m > 0 => n <= m
     IN /\ redis' = [k \in DOMAIN redis |-> aged(elapse(redis[k], delta), delta)]
        /\ coupon_storage' =
             [k \in DOMAIN coupon_storage |-> elapse(coupon_storage[k], delta)]
        /\ expect' = [k \in DOMAIN expect |-> aged_expect(expect[k], delta)]
        /\ issued' = [p \in DOMAIN issued |->
                        [c \in Codes |-> aged_left(issued[p][c], delta)]]
        /\ window' = [p \in DOMAIN window |-> aged_window(window[p], delta)]
        /\ granted' = [c \in CouponCodes |->
                         [u \in Users |-> aged_left(granted[c][u], delta)]]
  /\ out' = NoOut
  /\ UNCHANGED <<seqvars, backend, local_storage, reachable>>

\* the remote server becomes unreachable, or reachable again
LinkChange ==
  /\ backend = "redis"
  /\ reachable' = ~reachable
  /\ out' = NoOut
  /\ UNCHANGED <<seqvars, backend, redis, local_storage, expect, issued, window,
                 couponvars>>

KVNext ==
  \/ \E k \in KVKeys, ttl \in Ttls : \E v \in SetValues(k) : call_set(k, v, ttl)
  \/ \E k \in KVKeys : call_get(k)
  \/ \E k \in KVKeys : call_delete(k)
  \/ \E k \in KVKeys : call_exists(k)
  \/ \E k \in KVKeys, a \in Amounts : call_increment(k, a)
  \/ \E p \in Patterns : call_get_keys(p)
  \/ StoreTick
  \/ LinkChange

\* the store alone, driven by any caller
KVSpec == KVInit /\ [][KVNext]_vars

OTPNext ==
  \/ \E p \in Phones : generate_otp(p)
  \/ \E p \in Phones, c \in Codes : verify_otp(p, c)
  \/ StoreTick
  \/ LinkChange

\* the OTP service over the store
OTPSpec == KVInit /\ [][OTPNext]_vars

CouponNext ==
  \/ \E u \in Users : generate_coupon(u)
  \/ \E c \in CouponCodes, u \in Users : validate_coupon(c, u)
  \/ \E c \in CouponCodes : call_get(CouponKey(c))
  \/ StoreTick
  \/ LinkChange

\* the coupon service over its own KVStore instance, beside a component that
\* reads through the singleton kv_store
CouponSpec == KVInit /\ [][CouponNext]_vars

\* no call of the OTP service has left a trace: nothing is stored under its
\* keys and no code has been issued
OtpUntouched ==
  \A p \in DOMAIN issued :
    /\ window[p] = NoWindow
    /\ redis[RateKey(p)] = NoEntry /\ local_storage[RateKey(p)] = NoEntry
    /\ \A c \in Codes :
         /\ issued[p][c] = Unissued
         /\ redis[OtpKey(p, c)] = NoEntry
         /\ local_storage[OtpKey(p, c)] = NoEntry

\* the same for the coupon service
CouponUntouched ==
  /\ granted = [c \in CouponCodes |-> [u \in Users |-> Ungranted]]
  /\ \A k \in CouponKeys : redis[k] = NoEntry /\ coupon_storage[k] = NoEntry

\* the two issuers side by side.  They share no key (otp: and rate: against
\* coupon: and user_coupon:) and no object (OTPService uses the singleton
\* kv_store, CouponService its own KVStore), so a run follows one of them at
\* a time: a service is called while the other has left nothing behind
IssuerNext ==
  \/ CouponUntouched /\ \E p \in Phones : generate_otp(p)
  \/ CouponUntouched /\ \E p \in Phones, c \in Codes : verify_otp(p, c)
  \/ OtpUntouched /\ \E u \in Users : generate_coupon(u)
  \/ OtpUntouched /\ \E c \in CouponCodes, u \in Users : validate_coupon(c, u)
  \/ StoreTick
  \/ LinkChange

IssuerSpec == KVInit /\ [][IssuerNext]_vars

\* the keys of the store when two phones ask for codes
OwnerKeys ==
  {OtpKey(p, c) : p \in OwnerPhones, c \in Codes}
  \cup {RateKey(p) : p \in OwnerPhones}
  \cup CouponKeys

\* the OTP service and the store freshly constructed, two phones to come
OwnerInit ==
  /\ Idle
  /\ backend \in {"redis", "local"}
  /\ reachable \in (IF backend = "redis" THEN BOOLEAN ELSE {FALSE})
  /\ redis = [k \in OwnerKeys |-> NoEntry]
  /\ local_storage = [k \in OwnerKeys |-> NoEntry]
  /\ out = NoOut
  /\ expect = [k \in OwnerKeys |-> Never]
  /\ issued = [p \in OwnerPhones |-> [c \in Codes |-> Unissued]]
  /\ window = [p \in OwnerPhones |-> NoWindow]
  /\ coupon_storage = [k \in OwnerKeys |-> NoEntry]
  /\ granted = [c \in CouponCodes |-> [u \in Users |-> Ungranted]]

\* the phone has not asked for a code before
FirstRequest(p) == window[p] = NoWindow

\* two phones and two users.  Each phone asks for one code (any of Codes,
\* the same or not) and any verification is tried for any phone, code and
\* user; as in IssuerNext, a run follows one of the two issuers
OwnerNext ==
  \/ CouponUntouched /\ \E p \in OwnerPhones : FirstRequest(p) /\ generate_otp(p)
  \/ CouponUntouched /\ \E p \in OwnerPhones, c \in Codes : verify_otp(p, c)
  \/ OtpUntouched /\ \E u \in Users : generate_coupon(u)
  \/ OtpUntouched /\ \E c \in CouponCodes, u \in Users : validate_coupon(c, u)
  \/ StoreTick
  \/ LinkChange

OwnerSpec == OwnerInit /\ [][OwnerNext]_vars

--------------------------------------------------------------------------
(* Properties *)

Accepted == {"success", "started"}

\* the task of (svc, id) that has not ended or, when there is none, the record
\* of the one that ended last
Job(svc, id) ==
  IF TasksOf(svc, id) # {} THEN CHOOSE t \in TasksOf(svc, id) : TRUE
  ELSE last[svc][id]

HasJob(svc, id) == TasksOf(svc, id) # {} \/ last[svc][id] # NoTask

Ended(svc, id, outcome) ==
  TasksOf(svc, id) = {} /\ last[svc][id].outcome = outcome

\* number of notifier calls of job j that have returned
Returned(j) == j.returned

\* C1: for every tracking_id and every activity_id, at most one background
\* sequence task of that id has not ended, whatever the interleaving of the
\* triggers
C1_AtMostOneTask ==
  \A s \in Services : \A i \in IdsOf(s) : Running(s, i) <= 1

\* a trigger for an id was refused while the one task of that id was running
C1_Witness ==
  /\ ack.status = "error"
  /\ Running(ack.svc, ack.id) = 1

\* C2: a trigger that finds a sequence of its id running is refused, and a
\* trigger that finds the guard of its id released is accepted
C2_RefusedWhileActive ==
  ack # NoAck =>
    /\ ack.running => ack.status = "error"
    /\ ack.found = "released" => ack.status \in Accepted
    /\ ack.status = "error" => ack.running

\* a trigger was accepted for an id whose earlier sequence had released it
C2_Witness ==
  /\ ack # NoAck
  /\ ack.found = "released"
  /\ ack.status \in Accepted

C4_DeliverySequence ==
  \A i \in DeliveryIds :
    HasJob("delivery", i) =>
      LET j == Job("delivery", i)
          n == Len(j.calls)
      IN /\ n <= 3
         /\ \A k \in 1..n :
              /\ j.calls[k].ev = <<"Delivery Pickup", "In transit", "Delivered">>[k]
              /\ j.calls[k].gap = IF k = 1 THEN 0 ELSE j.d
         /\ (Ended("delivery", i, "completed") /\ ~j.err) => n = 3
         /\ (TasksOf("delivery", i) # {}) => is_active(active_jobs["delivery"], i)

\* a delivery sequence has completed with no failing notifier call
C4_Witness ==
  \E i \in DeliveryIds :
    /\ Ended("delivery", i, "completed")
    /\ ~last["delivery"][i].err
    /\ last["delivery"][i].d = 10

\* C5: the notifier calls of a flight sequence have the events "update",
\* "update", "end" in that order, each entered after one sleep of step_delay;
\* a sequence that completes has made exactly these three calls
C5_FlightSequence ==
  \A i \in FlightIds :
    HasJob("flight", i) =>
      LET j == Job("flight", i)
          n == Len(j.calls)
      IN /\ n <= 3
         /\ \A k \in 1..n :
              /\ j.calls[k].ev = (IF k = 3 THEN "end" ELSE "update")
              /\ j.calls[k].gap = step_delay
         /\ Ended("flight", i, "completed") => n = 3

\* a flight sequence has completed
C5_Witness == \E i \in FlightIds : Ended("flight", i, "completed")

\* the status the record is said to have after k steps
StatusAfter(k) == <<"gate", "boarding", "finalCall", "ended">>[k + 1]

C7_AsStated ==
  \A s \in Services : \A i \in IdsOf(s) :
    (HasJob(s, i) /\ Job(s, i).err) =>
      /\ Returned(Job(s, i)) = Len(Job(s, i).calls)
      /\ TasksOf(s, i) = {} => last[s][i].outcome # "completed"

\* C8: once an id is claimed, a state is eventually reached in which its
\* task has ended and its guard is released
C8_EventuallyReleased ==
  \A s \in Services : \A i \in IdsOf(s) :
    is_active(active_jobs[s], i)
      ~> (~is_active(active_jobs[s], i) /\ Running(s, i) = 0)

\* every id has been claimed and released, none is running
C8_Witness ==
  \A s \in Services : \A i \in IdsOf(s) :
    /\ guard_state(active_jobs[s], i) = "released"
    /\ Running(s, i) = 0
    /\ last[s][i].outcome \in {"completed", "failed"}

\* C9: the step in which a trigger claims an id returns the acknowledgment
\* and leaves the new task not yet run, with no notifier call entered and
\* every other task as it was: no time passes within the trigger
C9_AckBeforeFirstCall ==
  [][\A s \in Services : \A i \in IdsOf(s) :
       (~is_active(active_jobs[s], i) /\ is_active(active_jobs[s], i)') =>
         /\ ack'.status \in Accepted /\ ack'.svc = s /\ ack'.id = i
         /\ \E t \in BagToSet(tasks') :
              /\ t.svc = s /\ t.id = i /\ t.pc = "pending" /\ t.calls = <<>>
              /\ tasks' = tasks (+) SetToBag({t})]_vars

\* a trigger has returned its acknowledgment and the task has not run yet
C9_Witness ==
  /\ ack.status \in Accepted
  /\ \E t \in TasksOf(ack.svc, ack.id) : t.pc = "pending" /\ t.calls = <<>>

C11_RefusalIsAResult ==
  (ack # NoAck /\ ack.found = "active") =>
    /\ ack.via = "return"
    /\ ack.status = "error"
    /\ ack.message \in {<<"Already tracking", ack.id>>,
                        <<"Sequence already running for", ack.id>>}

\* a delivery trigger has been refused while its sequence was between calls
C11_Witness ==
  /\ ack # NoAck
  /\ ack.svc = "delivery"
  /\ ack.found = "active"
  /\ ack.status = "error"
  /\ \E t \in TasksOf("delivery", ack.id) : t.pc = "sleep"

\* the operations of the store
KVOps == {"set", "get", "delete", "exists", "increment", "get_keys"}

\* the ttl the backend in use holds for a key that has an entry
TtlOf(key) ==
  IF backend = "redis" THEN redis[key].left ELSE local_storage[key].ttl

\* C12 as stated: a get that the backend serves, of a key written with a ttl
\* of T seconds, returns the value while less than T seconds have passed and
\* nothing once T seconds have passed, with the remote backend and with the
\* in-memory fallback
C12_AsStated ==
  (out.op = "get" /\ ~out.fault) =>
    /\ (out.before.status = "live" /\ out.before.ttl > 0) =>
         out.ret = out.before.value
    /\ out.before.status = "expired" => out.ret = Absent

\* C13 as stated: a get that the backend serves returns the value of the
\* most recent set of the key when the key has not been deleted and has not
\* expired since, and nothing otherwise; and a set leaves the key with the
\* value and the ttl it was called with
C13_AsStated ==
  /\ (out.op = "get" /\ ~out.fault /\ out.before.status # "unknown"
        /\ out.before.incs = 0) =>
       out.ret = (IF out.before.status = "live" THEN out.before.value
                  ELSE Absent)
  /\ (out.op = "set" /\ out.ret) =>
       /\ Held(out.key) = out.value
       /\ TtlOf(out.key) = out.ttl

\* the value an operation returns from its except branch
FailureValue(op) ==
  CASE op = "get" -> Absent
    [] op = "increment" -> 0
    [] op = "get_keys" -> {}
    [] OTHER -> FALSE

\* C14 as stated: no operation of the store raises; a get of a key that is
\* missing or has expired returns nothing; an operation that hits a backend
\* fault returns its failure value (set: False)
C14_AsStated ==
  out.op \in KVOps =>
    /\ ~out.raised
    /\ out.fault => out.ret = FailureValue(out.op)
    /\ (out.op = "get" /\ ~out.fault
          /\ out.before.status \in {"never", "deleted", "expired"}) =>
         out.ret = Absent

\* C15 as stated: while the remote server is unreachable (or none is
\* configured) a set returns True and a get returns the value the key was
\* last set to
C15_AsStated ==
  /\ (out.op = "set" /\ ~reachable) => out.ret
  /\ (out.op = "get" /\ ~reachable /\ out.before.status = "live") =>
       out.ret = out.before.value

\* C16: a delete that the backend serves returns True exactly when the
\* backend held an entry of the key, which is the case for a key that was set
\* and has neither been deleted nor expired, and not for a key never written
\* or already deleted; afterwards the backend holds no entry of the key, and
\* a get of a deleted key returns nothing, an exists False and a repeated
\* delete False
C16_Delete ==
  /\ (out.op = "delete" /\ ~out.fault) =>
       /\ out.ret = out.had
       /\ out.before.status = "live" => out.ret
       /\ out.before.status \in {"never", "deleted"} => ~out.ret
       /\ stored_json(Store, out.key) = Absent
  /\ (out.op = "get" /\ ~out.fault /\ out.before.status = "deleted") =>
       out.ret = Absent
  /\ (out.op = "exists" /\ ~out.fault) =>
       /\ out.ret = out.had
       /\ out.before.status = "deleted" => ~out.ret
       /\ out.before.status = "live" => out.ret

\* a delete has been repeated on a key that an earlier delete had removed
C16_Witness ==
  /\ out.op = "delete"
  /\ ~out.fault
  /\ out.before.status = "deleted"
  /\ ~out.ret

\* C17: an increment that the backend serves returns the prior value of the
\* key (0 when the key has no entry) plus the amount and leaves that number
\* stored; a key that had no entry and has since only been incremented, in
\* any order of the calls, holds the sum of the amounts
C17_Increment ==
  /\ (out.op = "increment" /\ ~out.fault) =>
       /\ out.before.status \in {"never", "deleted"} => out.ret = out.amount
       /\ (out.before.status = "live" /\ is_int(out.before.value)) =>
            out.ret = out.before.value.int + out.amount
       /\ Held(out.key) = [int |-> out.ret]
  /\ \A k \in StoreKeys :
       (expect[k].status = "live" /\ expect[k].fresh) =>
         Held(k) = [int |-> expect[k].incs]

\* a key that had no entry has been incremented by 1 and then by 2
C17_Witness ==
  /\ out.op = "increment"
  /\ ~out.fault
  /\ out.amount = 2
  /\ out.before.fresh
  /\ out.before.incs = 1
  /\ out.ret = 3

\* the keys a pattern stands for
Matching(pattern) ==
  IF pattern = <<"*">> THEN StoreKeys
  ELSE IF pattern = <<"otp:", "*">>
  THEN {OtpKey(p, c) : p \in Phones, c \in Codes}
  ELSE {RateKey(p) : p \in Phones}

\* C18: a get_keys that the backend serves returns exactly the keys of the
\* pattern that the backend holds an entry of: every key of the pattern that
\* was set and is live is listed, and no key that was never written or has
\* been deleted is
C18_GetKeys ==
  (out.op = "get_keys" /\ ~out.fault) =>
    /\ out.ret = {k \in Matching(out.key) : stored_json(Store, k) # Absent}
    /\ \A k \in StoreKeys :
         /\ (expect[k].status = "live" /\ k \in Matching(out.key)) =>
              k \in out.ret
         /\ expect[k].status \in {"never", "deleted"} => k \notin out.ret

\* with one key live and another deleted, the keys of "otp:*" have been
\* listed: the live key of another prefix is not among them
C18_Witness ==
  /\ out.op = "get_keys"
  /\ ~out.fault
  /\ out.key = <<"otp:", "*">>
  /\ out.ret = {}
  /\ \E k \in Matching(<<"rate:", "*">>) : expect[k].status = "live"
  /\ \E k \in Matching(<<"otp:", "*">>) : expect[k].status = "deleted"

\* C19 as stated (its single-use part): once verify_otp has accepted a code
\* of a phone, no later verify_otp of that phone and code is accepted
C19_AsStated ==
  (out.op = "verify_otp" /\ out.before.won) => ~out.valid

\* C20 as stated: no step takes the entry of an "otp:" key from used = True
\* to an entry with used = False
C20_AsStated ==
  [][\A p \in Phones, c \in Codes :
       (Held(OtpKey(p, c)) # Absent /\ Held(OtpKey(p, c)).used) =>
         (Held(OtpKey(p, c))' # Absent => Held(OtpKey(p, c)).used')]_vars


\* C21 as stated: a verify_otp of a code whose expires_at (300 s after its
\* latest issue) has passed is never accepted, whichever backend is in use
C21_AsStated ==
  (out.op = "verify_otp" /\ out.clean /\ out.before.issued
     /\ out.before.left = 0) => ~out.valid

\* C22 as stated: within a rate window of a phone, generate_otp returns a
\* code while fewer than 3 codes have been returned in the window, and is
\* rejected after that
C22_AsStated ==
  (out.op = "generate_otp" /\ ~out.fault /\ out.before.clean
     /\ out.before.status \in {"none", "open"}) =>
    (out.raised <=> out.before.count >= rate_cap)

\* C23 as stated: once the window of a phone has elapsed, generate_otp
\* returns a code again and the stored count restarts (it is 1 after the call)
C23_AsStated ==
  (out.op = "generate_otp" /\ ~out.fault /\ out.before.clean
     /\ out.before.status = "closed") =>
    /\ ~out.raised
    /\ Held(RateKey(out.phone)) = [int |-> 1]

HeldByCoupons(key) == loaded(stored_json(CouponStore, key))

\* a coupon of a code issued to a user is live: its expires_at has not
\* passed and it has not been accepted yet
Live(g) == g.left > 0 /\ ~g.won

\* C25 as stated: while a coupon issued to user u is live, validate_coupon of
\* its code returns true for u and false for every other user
C25_AsStated ==
  (out.op = "validate_coupon" /\ ~out.fault) =>
    \A u \in Users : Live(out.before[u]) => (out.valid <=> out.user = u)

\* C26 as stated: a validate_coupon that returns true leaves the stored
\* coupon with used = True, and the coupon is not accepted a second time
C26_AsStated ==
  out.op = "validate_coupon" =>
    /\ (out.valid /\ ~out.fault) =>
          /\ HeldByCoupons(CouponKey(out.code)) # Absent
          /\ HeldByCoupons(CouponKey(out.code)).used
    /\ out.before[out.user].won => ~out.valid

\* C27 as stated: a value one component has set under a key is what get on
\* that key returns to another component (here: the coupon service has set
\* it and holds it, get is called on the singleton kv_store)
C27_AsStated ==
  (out.op = "get" /\ ~out.fault /\ out.key \in CouponKeys) =>
    out.ret = HeldByCoupons(out.key)

\* the steps of id a: its trigger, and the segments and the cancellation of
\* its tasks
StepOf(a) ==
  \/ \E g \in Gates : schedule_emoji_sequence(a, g)
  \/ \E t \in TasksOf("flight", a) : _run_emoji_sequence(t) \/ Cancel(t)

\* C28: a trigger is refused only while a task of its own id has not ended,
\* and a step of id a (claiming, running, releasing) leaves the guard entry
\* and the stored record of every other id as they were
C28_Independent ==
  /\ [](ack # NoAck /\ ack.status = "error" => ack.running)
  /\ [][\A a \in PairIds : StepOf(a) =>
          \A b \in PairIds \ {a} :
            /\ guard_state(active_jobs["flight"], b)' =
                 guard_state(active_jobs["flight"], b)
            /\ kv[FlightKey(b)]' = kv[FlightKey(b)]]_vars

\* a trigger of one id is accepted while the sequence of the other is running
\* and has written its record
C28_Witness ==
  /\ ack # NoAck
  /\ ack.status = "started"
  /\ \E b \in PairIds \ {ack.id} :
       /\ is_active(active_jobs["flight"], b)
       /\ \E t \in TasksOf("flight", b) : t.snaps > 0
       /\ kv[FlightKey(b)] # Absent

\* the entry the backend of the singleton kv_store holds under a key
EntryOf(key) == IF backend = "redis" THEN redis[key] ELSE local_storage[key]

\* the ttl an entry carries: the expiry the server keeps, the 'ttl' of the
\* dict entry
ttl_of(entry) == IF backend = "redis" THEN entry.left ELSE entry.ttl

\* C29 as stated (for the namespaces otp: and rate:): every entry present in
\* the store carries a TTL
C29_AsStated ==
  \A k \in {OtpKey(p, c) : p \in Phones, c \in Codes}
           \cup {RateKey(p) : p \in Phones} :
    EntryOf(k) # NoEntry => ttl_of(EntryOf(k)) > 0

\* C30 as stated: generate_coupon never writes coupon:<code> over a live
\* coupon entry
C30_AsStated ==
  (out.op = "generate_coupon" /\ ~out.fault) =>
    ~(truthy(out.had) /\ out.had.expires_at # 0)

--------------------------------------------------------------------------
(* Frame conditions of the refusals and failures *)

\* C31: a trigger refused because a sequence of its id is active changes
\* nothing: the guard map, the stored record of the id, the set of tasks (so
\* no task is started and the running one stays at its step) and the records
\* of ended sequences are as they were before the trigger
C31_RefusalChangesNothing ==
  [][(ack' # NoAck /\ ack'.status = "error") =>
       /\ ack'.found = "active"
       /\ UNCHANGED <<active_jobs, tasks, last, kv, faults>>]_vars

\* a flight trigger has been refused after the first step of the running
\* sequence, and the record still shows that step, not a new baseline
C31_Witness ==
  /\ ack.status = "error"
  /\ ack.svc = "flight"
  /\ \E t \in TasksOf("flight", ack.id) : t.snaps = 1 /\ t.kvok
  /\ kv[FlightKey(ack.id)].sstatus = "boarding"

\* C32: a generate_otp rejected by the rate limit leaves the store as it
\* was: no "otp:" entry is created, and the value and the expiry of the
\* "rate:" counter are the same after the call, on either backend
C32_RejectionWritesNothing ==
  [][(out'.op = "generate_otp" /\ out'.raised) =>
       /\ redis' = redis
       /\ local_storage' = local_storage]_vars

\* a call has been rejected while the counter of the phone stood at the cap
\* and no code of the phone was stored any more
C32_Witness ==
  /\ out.op = "generate_otp"
  /\ out.raised
  /\ Held(RateKey(out.phone)) = [int |-> rate_cap]
  /\ \A c \in Codes : Held(OtpKey(out.phone, c)) = Absent

\* C33: a verification that fails (verify_otp of a code not found or already
\* used; validate_coupon of a coupon not found, owned by another user, used
\* or expired) leaves every stored entry as it was, value and remaining ttl:
\* nothing is consumed, deleted or prolonged
C33_FailureWritesNothing ==
  [][((out'.op = "verify_otp" \/ out'.op = "validate_coupon") /\ ~out'.valid) =>
       /\ redis' = redis
       /\ local_storage' = local_storage
       /\ coupon_storage' = coupon_storage]_vars

\* a code already used has been refused, and its entry is still stored as
\* used
C33_Witness ==
  /\ out.op = "verify_otp"
  /\ ~out.valid
  /\ out.message = "Code already used"
  /\ Held(OtpKey(out.phone, out.code)) # Absent
  /\ Held(OtpKey(out.phone, out.code)).used

\* a coupon of one user has been refused to another user, and is still
\* stored for its owner
C33_CouponWitness ==
  /\ out.op = "validate_coupon"
  /\ ~out.valid
  /\ HeldByCoupons(CouponKey(out.code)) # Absent
  /\ HeldByCoupons(CouponKey(out.code)).user_id # out.user

\* C34 as stated: an increment that the backend serves, of a key that has an
\* entry, leaves the ttl of the entry as it was, with the remote backend and
\* with the in-memory fallback
C34_AsStated ==
  [][\A k \in KVKeys :
       (out'.op = "increment" /\ out'.key = k /\ ~out'.fault /\ out'.had) =>
         TtlOf(k)' = TtlOf(k)]_vars

\* the same for the remote backend alone
C34_OnRedis ==
  [][\A k \in KVKeys :
       (backend = "redis" /\ out'.op = "increment" /\ out'.key = k
          /\ ~out'.fault /\ out'.had) =>
         TtlOf(k)' = TtlOf(k)]_vars

--------------------------------------------------------------------------
(* Order of the notifier calls and the store writes of the flight sequence *)

\* the record shows the state of step i: state.status "boarding" (1) or
\* "finalCall" (2), status "ended" (3)
Shows(rec, i) ==
  /\ rec # Absent
  /\ CASE i = 1 -> rec.sstatus = "boarding"
       [] i = 2 -> rec.sstatus = "finalCall"
       [] OTHER -> rec.status = "ended"

\* C35: the stored record of an activity never runs ahead of the
\* notifications.  While the store operations of its sequence have gone
\* through, the record shows the state of step i only if i notifier calls of
\* the sequence have returned; and, faults or not, the record comes to show
\* the state of step i only in the step in which the notifier call of step i,
\* already made, returns
C35_RecordNeverAhead ==
  /\ [](\A a \in FlightIds :
         (HasJob("flight", a) /\ Job("flight", a).kvok) =>
           \A i \in 1..3 :
             Shows(kv[FlightKey(a)], i) => Returned(Job("flight", a)) >= i)
  /\ [][\A a \in FlightIds : \A i \in 1..3 :
         (~Shows(kv[FlightKey(a)], i) /\ Shows(kv[FlightKey(a)]', i)) =>
           /\ \E t \in TasksOf("flight", a) :
                /\ t.pc = "call" /\ t.step = i /\ t.timer = 0
                /\ t.returned = i - 1
           /\ Returned(Job("flight", a))' = i]_vars

\* the notifier call of step 2 has been made and has not returned: the
\* record still shows step 1
C35_Witness ==
  \E a \in FlightIds :
    /\ \E t \in TasksOf("flight", a) : t.pc = "call" /\ t.step = 2 /\ t.kvok
    /\ Shows(kv[FlightKey(a)], 1)
    /\ ~Shows(kv[FlightKey(a)], 2)

--------------------------------------------------------------------------
(* The reverse lookup of the coupons *)

\* every coupon is followed: no generate_coupon has hit a backend fault
Followed == \A c \in CouponCodes, u \in Users : granted[c][u].clean

\* C36 as stated: while the calls are served, whenever the coupon service's
\* store holds user_coupon:<user_id>, the code it names is the one issued to
\* the user last, and the store holds coupon:<code> with that user_id
C36_AsStated ==
  Followed =>
    \A u \in Users :
      LET named == HeldByCoupons(UserCouponKey(u))
      IN named # Absent =>
           /\ \A c \in CouponCodes :
                granted[c][u].left <= granted[named.coupon_code][u].left
           /\ HeldByCoupons(CouponKey(named.coupon_code)) # Absent
           /\ HeldByCoupons(CouponKey(named.coupon_code)).user_id = u

\* the same while no code has been drawn for two users
C36_WithoutCollision ==
  (/\ Followed
   /\ \A c \in CouponCodes : \A u, v \in Users :
        (granted[c][u].left > 0 /\ granted[c][v].left > 0) => u = v) =>
    \A u \in Users :
      LET named == HeldByCoupons(UserCouponKey(u))
      IN (named # Absent /\ granted[named.coupon_code][u].left > 0) =>
           /\ \A c \in CouponCodes :
                granted[c][u].left <= granted[named.coupon_code][u].left
           /\ HeldByCoupons(CouponKey(named.coupon_code)) # Absent
           /\ HeldByCoupons(CouponKey(named.coupon_code)).user_id = u

--------------------------------------------------------------------------
(* Issue and ownership of the codes *)

\* C37 as stated: when generate_otp returns a code, the entry of the code is
\* in the store (a set that fails makes the issue fail)
C37_AsStated ==
  (out.op = "generate_otp" /\ ~out.raised) =>
    Held(OtpKey(out.phone, out.code)) # Absent

\* the same for the calls the backend serves
C37_WhenServed ==
  (out.op = "generate_otp" /\ ~out.raised /\ ~out.fault) =>
    Held(OtpKey(out.phone, out.code)) # Absent

\* the keys of the OTP service that belong to a phone
KeysOf(p) == {OtpKey(p, c) : c \in Codes} \cup {RateKey(p)}

\* C38: artifacts are isolated per owner.  verify_otp(phone, code) is
\* accepted only if generate_otp has returned that code to that phone, and
\* validate_coupon(code, user) only if the stored coupon of the code is bound
\* to that user; a verify_otp for one phone leaves the entries and the codes
\* of every other phone as they were, and a validate_coupon leaves every
\* coupon as it was
C38_OwnerIsolation ==
  /\ []((out.op = "verify_otp" /\ out.valid) => out.before.issued)
  /\ []((out.op = "validate_coupon" /\ out.valid) =>
          /\ HeldByCoupons(CouponKey(out.code)) # Absent
          /\ HeldByCoupons(CouponKey(out.code)).user_id = out.user)
  /\ [][\A p \in OwnerPhones :
         (out'.op = "verify_otp" /\ out'.phone = p) =>
           \A q \in OwnerPhones \ {p} :
             /\ issued'[q] = issued[q]
             /\ \A k \in KeysOf(q) :
                  redis'[k] = redis[k] /\ local_storage'[k] = local_storage[k]]_vars
  /\ [][out'.op = "validate_coupon" =>
         \A k \in CouponKeys :
           redis'[k] = redis[k] /\ coupon_storage'[k] = coupon_storage[k]]_vars

\* a code issued to one phone only has been tried for the other phone and
\* refused, and the owner's entry is still stored unused
C38_Witness ==
  /\ out.op = "verify_otp"
  /\ ~out.valid
  /\ ~issued[out.phone][out.code].issued
  /\ \E q \in OwnerPhones \ {out.phone} :
       /\ issued[q][out.code].issued
       /\ Held(OtpKey(q, out.code)) # Absent
       /\ ~Held(OtpKey(q, out.code)).used

\* a coupon of one user has been tried for the other user and refused while
\* its owner could still redeem it
C38_CouponWitness ==
  /\ out.op = "validate_coupon"
  /\ ~out.valid
  /\ \E u \in Users \ {out.user} :
       /\ Live(granted[out.code][u])
       /\ is_valid(HeldByCoupons(CouponKey(out.code)), u)

==========================================================================
